---- MODULE Spec2Model ----
(***************************************************************************)
(* Model of train_schedule.py: the command line program that either        *)
(* refreshes the GTFS feed (--fetch) or prints the next trains of a        *)
(* station (get_next_train).                                               *)
(*                                                                         *)
(* Tables are sequences of records (a pandas DataFrame in row order).      *)
(* A time text "HH:MM:SS" is the sequence of its colon separated fields,   *)
(* <<8, 0, 0>> for "08:00:00"; a datetime.time is <<h, m, s, us>>; NaT is  *)
(* the empty tuple.  Every stop_times row carries the ghost field `row`,   *)
(* its position in stop_times.txt, so that properties can speak about the  *)
(* original row order; `row` is not printed.                               *)
(***************************************************************************)
EXTENDS Integers, Sequences, FiniteSets, TLC

VARIABLES
    station_name,          \* args.station
    num_trains_per_route,  \* args.num_print
    fetch_data,            \* args.fetch
    zip_file,              \* the archive at save_path: "absent", "stale", "fresh"
    feed,                  \* the files under extract_path: "absent", "stale", "fresh"
    stop_times,            \* content of stop_times.txt
    current_time,          \* datetime.now() read by get_next_train, or NoTime
    next_trains,           \* next_trains_per_headsign, with the ghost field
    stdout,                \* the messages printed so far
    pc                     \* "main", "extract", "report", "done", "crashed"

vars == <<station_name, num_trains_per_route, fetch_data, zip_file, feed,
          stop_times, current_time, next_trains, stdout, pc>>

----------------------------------------------------------------------------
(* Bounds of the model *)

\* longest stop_times.txt
MaxRows == 3

\* largest --num_print
MaxN == 2

----------------------------------------------------------------------------
(* The feed: stops.txt, trips.txt, calendar.txt and the rows stop_times.txt *)
(* is drawn from.                                                          *)

NaT == <<>>

NoTime == [weekday |-> "none", time |-> NaT]

\* stops.txt: S1 and S2 are two platforms of station A
Stops ==
    << [stop_id |-> "S1", stop_name |-> "A"],
       [stop_id |-> "S2", stop_name |-> "A"],
       [stop_id |-> "S3", stop_name |-> "B"] >>

\* trips.txt: T9 is absent; Svc3 is absent from calendar.txt
Trips ==
    << [trip_id |-> "T1", route_id |-> "R1", service_id |-> "Svc1", trip_headsign |-> "North"],
       [trip_id |-> "T2", route_id |-> "R1", service_id |-> "Svc1", trip_headsign |-> "South"],
       [trip_id |-> "T3", route_id |-> "R2", service_id |-> "Svc1", trip_headsign |-> "East"],
       [trip_id |-> "T4", route_id |-> "R1", service_id |-> "Svc1", trip_headsign |-> "North"],
       [trip_id |-> "T5", route_id |-> "R1", service_id |-> "Svc2", trip_headsign |-> "North"],
       [trip_id |-> "T6", route_id |-> "R2", service_id |-> "Svc3", trip_headsign |-> "South"] >>

\* calendar.txt: Svc1 runs every day, Svc2 on mondays only
Calendar ==
    << [service_id |-> "Svc1", monday |-> 1, tuesday |-> 1, wednesday |-> 1,
        thursday |-> 1, friday |-> 1, saturday |-> 1, sunday |-> 1],
       [service_id |-> "Svc2", monday |-> 1, tuesday |-> 0, wednesday |-> 0,
        thursday |-> 0, friday |-> 0, saturday |-> 0, sunday |-> 0] >>

StopTime(s, t, a) ==
    [stop_id |-> s, trip_id |-> t, arrival_time |-> a, departure_time |-> a]

\* the rows a stop_times.txt is made of
StopTimeRows ==
    { StopTime("S1", "T1", <<8, 0, 0>>),
      StopTime("S2", "T2", <<8, 5, 0>>),
      StopTime("S3", "T3", <<8, 10, 0>>),
      StopTime("S2", "T4", <<8, 0, 0>>),
      StopTime("S1", "T2", <<8, 0, 0>>),
      StopTime("S1", "T5", <<8, 2, 0>>),
      StopTime("S1", "T1", <<25, 30, 0>>),
      StopTime("S2", "T9", <<8, 5, 0>>),
      StopTime("S2", "T6", <<8, 5, 0>>) }

StopTimesFiles == UNION { [1..n -> StopTimeRows] : n \in 0..MaxRows }

StationNames == {"A", "B", "Z"}

\* the instants datetime.now() is drawn from
Nows ==
    { [weekday |-> d, time |-> t] :
        d \in {"monday", "sunday"},
        t \in { <<7, 0, 0, 0>>, <<8, 0, 0, 0>>, <<9, 0, 0, 250>> } }

StatusCodes == {200, 404, 500}

----------------------------------------------------------------------------
(* Helpers: pandas and datetime primitives *)

\* datetime.time comparison: lexicographic on (hour, minute, second, microsecond)
TimeLess(a, b) ==
    \E k \in 1..4 : a[k] < b[k] /\ \A j \in 1..(k - 1) : a[j] = b[j]

\* Python str comparison on the headsigns of trips.txt
StrLess(a, b) ==
    LET rank == [East |-> 1, North |-> 2, South |-> 3]
    IN  rank[a] < rank[b]

\* a stable sort of s, less[i][j] telling whether s[i] sorts before s[j]:
\* the place of s[i] is the count of the elements that go before it
StableSort(s, less) ==
    LET before(j, i) == less[j][i] \/ (~less[i][j] /\ j < i)
        place(i) == 1 + Cardinality({ j \in DOMAIN s : before(j, i) })
    IN  [p \in DOMAIN s |-> s[CHOOSE i \in DOMAIN s : place(i) = p]]

RECURSIVE Flatten(_)
Flatten(ss) ==
    IF ss = <<>> THEN <<>> ELSE Head(ss) \o Flatten(Tail(ss))

\* DataFrame.head(n)
DfHead(f, n) ==
    IF n >= 0
    THEN SubSeq(f, 1, IF n < Len(f) THEN n ELSE Len(f))
    ELSE SubSeq(f, 1, IF Len(f) + n > 0 THEN Len(f) + n ELSE 0)

----------------------------------------------------------------------------
(* get_next_train *)

\* pd.read_csv of stop_times.txt; the ghost field is the row's position
ReadStopTimes(st) ==
    [i \in DOMAIN st |->
        [row |-> i, stop_id |-> st[i].stop_id, trip_id |-> st[i].trip_id,
         arrival_time |-> st[i].arrival_time,
         departure_time |-> st[i].departure_time]]

StationStopIds_first(name) ==
    LET all == SelectSeq(Stops, LAMBDA s : s.stop_name = name)
    IN  IF all = <<>> THEN <<>> ELSE << all[1].stop_id >>

\* stops[stops['stop_name'] == station_name]['stop_id'].tolist()
StationStopIds(name) ==
    LET all == SelectSeq(Stops, LAMBDA s : s.stop_name = name)
    IN  [i \in DOMAIN all |-> all[i].stop_id]

NoStationFound_never(station_stop_ids) == FALSE

\* if not station_stop_ids
NoStationFound(station_stop_ids) == station_stop_ids = <<>>

\* stop_times[stop_times['stop_id'].isin(station_stop_ids)]
FilteredStopTimes(f, station_stop_ids) ==
    SelectSeq(f, LAMBDA r : \E k \in DOMAIN station_stop_ids :
                                station_stop_ids[k] = r.stop_id)

ParseTime_lenient(text) ==
    IF Len(text) = 3 THEN <<text[1], text[2], text[3], 0>> ELSE NaT

\* pd.to_datetime(text, format='%H:%M:%S', errors='coerce') then .dt.time
ParseTime(text) ==
    IF /\ Len(text) = 3
       /\ text[1] \in 0..23
       /\ text[2] \in 0..59
       /\ text[3] \in 0..59
    THEN <<text[1], text[2], text[3], 0>>
    ELSE NaT

\* filtered_stop_times['arrival_time'] = ...
ParsedStopTimes(f) ==
    [i \in DOMAIN f |-> [f[i] EXCEPT !.arrival_time = ParseTime(@)]]

IsUpcoming_orNow(arrival, now) ==
    arrival # NaT /\ ~TimeLess(arrival, now)

\* arrival_time > current_time.time(); a comparison with NaT is False
IsUpcoming(arrival, now) ==
    arrival # NaT /\ TimeLess(now, arrival)

UpcomingTrains_nextOnly(f, now) ==
    DfHead(SelectSeq(f, LAMBDA r : IsUpcoming(r.arrival_time, now)), 1)

\* filtered_stop_times[filtered_stop_times['arrival_time'] > current_time.time()]
UpcomingTrains(f, now) ==
    SelectSeq(f, LAMBDA r : IsUpcoming(r.arrival_time, now))

\* pd.merge(upcoming_trains, trips, on='trip_id'): inner join in the order of
\* the left rows
MergeTrips(f) ==
    Flatten([i \in DOMAIN f |->
        LET hits == SelectSeq(Trips, LAMBDA t : t.trip_id = f[i].trip_id)
        IN  [k \in DOMAIN hits |->
                [row |-> f[i].row, stop_id |-> f[i].stop_id,
                 trip_id |-> f[i].trip_id,
                 arrival_time |-> f[i].arrival_time,
                 departure_time |-> f[i].departure_time,
                 route_id |-> hits[k].route_id,
                 service_id |-> hits[k].service_id,
                 trip_headsign |-> hits[k].trip_headsign]]])

RunningToday_anyDay(current_day) ==
    Calendar

\* calendar[calendar[current_day] == 1]
RunningToday(current_day) ==
    SelectSeq(Calendar, LAMBDA c : c[current_day] = 1)

\* upcoming_trains[upcoming_trains['service_id'].isin(calendar['service_id'])]
ServiceFilter(f, current_day) ==
    LET running == RunningToday(current_day)
    IN  SelectSeq(f, LAMBDA r : \E k \in DOMAIN running :
                                    running[k].service_id = r.service_id)

\* upcoming_trains.sort_values(by=['trip_headsign', 'arrival_time'])
SortHeadsignArrival(f) ==
    StableSort(f, [i \in DOMAIN f |-> [j \in DOMAIN f |->
        \/ StrLess(f[i].trip_headsign, f[j].trip_headsign)
        \/ /\ f[i].trip_headsign = f[j].trip_headsign
           /\ TimeLess(f[i].arrival_time, f[j].arrival_time)]])

GroupHead_oneMore(g, n) == DfHead(g, n + 1)

\* lambda x: x.head(num_trains_per_route)
GroupHead(g, n) == DfHead(g, n)

\* upcoming_trains.groupby('trip_headsign').apply(...).reset_index(drop=True):
\* the groups in ascending key order, each in the order of its rows
NextTrainsPerHeadsign(f, n) ==
    LET heads == [i \in DOMAIN f |-> f[i].trip_headsign]
        keys == StableSort(heads, [i \in DOMAIN f |-> [j \in DOMAIN f |->
                    StrLess(heads[i], heads[j])]])
        first(i) == \A j \in 1..(i - 1) : keys[j] # keys[i]
    IN  Flatten([i \in DOMAIN keys |->
            IF first(i)
            THEN GroupHead(SelectSeq(f, LAMBDA r : r.trip_headsign = keys[i]), n)
            ELSE <<>>])

\* next_trains_per_headsign.sort_values(by='arrival_time'): numpy sorts a
\* column of at most 16 values by insertion, which keeps ties in place
SortArrival(f) ==
    StableSort(f, [i \in DOMAIN f |-> [j \in DOMAIN f |->
        TimeLess(f[i].arrival_time, f[j].arrival_time)]])

\* the body of the else branch, lines 101 to 127
NextTrains(st, station_stop_ids, n, now) ==
    SortArrival(
      NextTrainsPerHeadsign(
        SortHeadsignArrival(
          ServiceFilter(
            MergeTrips(
              UpcomingTrains(
                ParsedStopTimes(
                  FilteredStopTimes(ReadStopTimes(st), station_stop_ids)),
                now.time)),
            now.weekday)),
        n))

\* next_trains_per_headsign[['stop_id', 'trip_id', 'arrival_time',
\*                           'departure_time', 'route_id', 'trip_headsign']]
Printed(f) ==
    [i \in DOMAIN f |->
        [stop_id |-> f[i].stop_id, trip_id |-> f[i].trip_id,
         arrival_time |-> f[i].arrival_time,
         departure_time |-> f[i].departure_time,
         route_id |-> f[i].route_id,
         trip_headsign |-> f[i].trip_headsign]]

Msg(kind, arg) == [kind |-> kind, arg |-> arg]

----------------------------------------------------------------------------
(* The program *)

InitQuery ==
    /\ fetch_data = FALSE
    /\ station_name \in StationNames
    /\ num_trains_per_route \in 1..MaxN
    /\ zip_file = "stale"
    /\ \/ feed = "stale" /\ stop_times \in StopTimesFiles
       \/ feed = "absent" /\ stop_times = <<>>

InitFetch ==
    /\ fetch_data = TRUE
    /\ station_name \in StationNames
    /\ num_trains_per_route \in 1..MaxN
    /\ zip_file \in {"absent", "stale"}
    /\ feed \in {"absent", "stale"}
    /\ zip_file = "absent" => feed = "absent"
    /\ stop_times = <<>>

Init ==
    /\ InitQuery \/ InitFetch
    /\ current_time = NoTime
    /\ next_trains = <<>>
    /\ stdout = <<>>
    /\ pc = "main"

\* get_next_train when the feed was never extracted: pd.read_csv raises
GetNextTrainNoFeed ==
    /\ pc = "main" /\ ~fetch_data
    /\ feed = "absent"
    /\ pc' = "crashed"
    /\ UNCHANGED <<station_name, num_trains_per_route, fetch_data, zip_file,
                   feed, stop_times, current_time, next_trains, stdout>>

\* get_next_train, the branch of line 96
GetNextTrainNotFound ==
    /\ pc = "main" /\ ~fetch_data
    /\ feed # "absent"
    /\ NoStationFound(StationStopIds(station_name))
    /\ stdout' = Append(stdout, Msg("No station found with name", station_name))
    /\ pc' = "done"
    /\ UNCHANGED <<station_name, num_trains_per_route, fetch_data, zip_file,
                   feed, stop_times, current_time, next_trains>>

\* get_next_train, the else branch
GetNextTrainFound ==
    /\ pc = "main" /\ ~fetch_data
    /\ feed # "absent"
    /\ ~NoStationFound(StationStopIds(station_name))
    /\ \E now \in Nows :
        LET ids == StationStopIds(station_name)
            result == NextTrains(stop_times, ids, num_trains_per_route, now)
        IN  /\ current_time' = now
            /\ next_trains' = result
            /\ stdout' = stdout \o
                 << Msg("Station found with stop IDs", ids),
                    Msg("Next trains headed to", station_name),
                    Msg("table", Printed(result)) >>
    /\ pc' = "done"
    /\ UNCHANGED <<station_name, num_trains_per_route, fetch_data, zip_file,
                   feed, stop_times>>

\* fetch_gtfs_data, status 200
FetchGtfsDataSaved ==
    /\ pc = "main" /\ fetch_data
    /\ zip_file' = "fresh"
    /\ stdout' = Append(stdout, Msg("GTFS data saved to", "save_path"))
    /\ pc' = "extract"
    /\ UNCHANGED <<station_name, num_trains_per_route, fetch_data, feed,
                   stop_times, current_time, next_trains>>

\* fetch_gtfs_data, any other status: the message, and the function returns
FetchGtfsDataFailed ==
    /\ pc = "main" /\ fetch_data
    /\ \E status_code \in StatusCodes \ {200} :
        stdout' = Append(stdout, Msg("Failed to download GTFS data", status_code))
    /\ pc' = "extract"
    /\ UNCHANGED <<station_name, num_trains_per_route, fetch_data, zip_file,
                   feed, stop_times, current_time, next_trains>>

\* fetch_gtfs_data, requests.get raises (no connection)
FetchGtfsDataRaises ==
    /\ pc = "main" /\ fetch_data
    /\ pc' = "crashed"
    /\ UNCHANGED <<station_name, num_trains_per_route, fetch_data, zip_file,
                   feed, stop_times, current_time, next_trains, stdout>>

\* extract_gtfs_info with an archive at save_path
ExtractGtfsInfo ==
    /\ pc = "extract"
    /\ zip_file # "absent"
    /\ feed' = zip_file
    /\ stdout' = Append(stdout, Msg("GTFS Data Information", "save_path"))
    /\ pc' = "report"
    /\ UNCHANGED <<station_name, num_trains_per_route, fetch_data, zip_file,
                   stop_times, current_time, next_trains>>

\* extract_gtfs_info without one: zipfile.ZipFile raises
ExtractGtfsInfoNoArchive ==
    /\ pc = "extract"
    /\ zip_file = "absent"
    /\ stdout' = Append(stdout, Msg("GTFS Data Information", "save_path"))
    /\ pc' = "crashed"
    /\ UNCHANGED <<station_name, num_trains_per_route, fetch_data, zip_file,
                   feed, stop_times, current_time, next_trains>>

\* print_gtfs_info
PrintGtfsInfo ==
    /\ pc = "report"
    /\ stdout' = Append(stdout, Msg("Stops, Routes, Trips, Stop Times", feed))
    /\ pc' = "done"
    /\ UNCHANGED <<station_name, num_trains_per_route, fetch_data, zip_file,
                   feed, stop_times, current_time, next_trains>>

Next ==
    \/ GetNextTrainNoFeed
    \/ GetNextTrainNotFound
    \/ GetNextTrainFound
    \/ FetchGtfsDataSaved
    \/ FetchGtfsDataFailed
    \/ FetchGtfsDataRaises
    \/ ExtractGtfsInfo
    \/ ExtractGtfsInfoNoArchive
    \/ PrintGtfsInfo

Spec == Init /\ [][Next]_vars

----------------------------------------------------------------------------
(* What the properties speak about, stated on the tables themselves *)

Queried == pc = "done" /\ ~fetch_data

\* the query ran its else branch: the station was found
Answered == Queried /\ current_time # NoTime

Said(kind) == \E i \in DOMAIN stdout : stdout[i].kind = kind

StationInStops == \E s \in DOMAIN Stops : Stops[s].stop_name = station_name

\* row i of stop_times.txt belongs to the queried station
AtStation(i) ==
    \E s \in DOMAIN Stops :
        /\ Stops[s].stop_id = stop_times[i].stop_id
        /\ Stops[s].stop_name = station_name

\* its arrival_time is a time of day under HH:MM:SS
WellFormed(i) ==
    LET a == stop_times[i].arrival_time
    IN  Len(a) = 3 /\ a[1] < 24 /\ a[2] < 60 /\ a[3] < 60

ArrivalOf(i) ==
    LET a == stop_times[i].arrival_time IN <<a[1], a[2], a[3], 0>>

HasTrip(i) == \E t \in DOMAIN Trips : Trips[t].trip_id = stop_times[i].trip_id

TripOf(id) == Trips[CHOOSE t \in DOMAIN Trips : Trips[t].trip_id = id]

\* the service of trip `id` has today's flag set in calendar.txt
ActiveToday(id) ==
    \E c \in DOMAIN Calendar :
        /\ Calendar[c].service_id = TripOf(id).service_id
        /\ Calendar[c][current_time.weekday] = 1

\* row i passes every filter of the query
Eligible(i) ==
    /\ AtStation(i)
    /\ WellFormed(i)
    /\ TimeLess(current_time.time, ArrivalOf(i))
    /\ HasTrip(i)
    /\ ActiveToday(stop_times[i].trip_id)

EligibleFor(h) ==
    { i \in DOMAIN stop_times :
        Eligible(i) /\ TripOf(stop_times[i].trip_id).trip_headsign = h }

\* row j goes before row i: earlier arrival, or the same arrival and an
\* earlier row of stop_times.txt
Before(j, i) ==
    \/ TimeLess(ArrivalOf(j), ArrivalOf(i))
    \/ ArrivalOf(j) = ArrivalOf(i) /\ j < i

Headsigns == { Trips[t].trip_headsign : t \in DOMAIN Trips }

RowsShown == { next_trains[k].row : k \in DOMAIN next_trains }

ShownFor(h) ==
    { next_trains[k].row :
        k \in { x \in DOMAIN next_trains : next_trains[x].trip_headsign = h } }

RemoveAt(s, i) == SubSeq(s, 1, i - 1) \o SubSeq(s, i + 1, Len(s))

----------------------------------------------------------------------------
(* C1 *)

\* C1: a station name that is the stop_name of no row of stops.txt prints
\* the not-found message and no table, and a station that exists never
\* prints the not-found message: it prints a table, empty or not.
C1_StationNotFound ==
    Queried =>
        IF StationInStops
        THEN /\ ~Said("No station found with name")
             /\ Said("table")
        ELSE /\ stdout = << Msg("No station found with name", station_name) >>
             /\ next_trains = <<>>

C1_Witness ==
    /\ Queried /\ ~StationInStops
    /\ stop_times # <<>>
    /\ Said("No station found with name")

----------------------------------------------------------------------------
(* C2 *)

\* C2: every row of the result arrives strictly after the time of day of
\* now; a row at exactly now, or earlier in the day, is not in the result.
C2_StrictlyLater ==
    Answered =>
        /\ \A k \in DOMAIN next_trains :
              TimeLess(current_time.time, next_trains[k].arrival_time)
        /\ \A i \in DOMAIN stop_times :
              (WellFormed(i) /\ ~TimeLess(current_time.time, ArrivalOf(i)))
                  => i \notin RowsShown

C2_Witness ==
    /\ Answered
    /\ next_trains # <<>>
    /\ \E i \in DOMAIN stop_times :
          /\ AtStation(i) /\ WellFormed(i) /\ HasTrip(i)
          /\ ActiveToday(stop_times[i].trip_id)
          /\ ArrivalOf(i) = current_time.time

----------------------------------------------------------------------------
(* C3 *)

\* C3: every row of the result belongs to a trip whose service_id has a
\* calendar.txt row with today's flag set; a row whose service has the flag
\* clear, or no calendar.txt row, is not in the result.
C3_ServiceRunsToday ==
    Answered =>
        /\ \A k \in DOMAIN next_trains : ActiveToday(next_trains[k].trip_id)
        /\ \A i \in DOMAIN stop_times :
              (HasTrip(i) /\ ~ActiveToday(stop_times[i].trip_id))
                  => i \notin RowsShown

C3_Witness ==
    /\ Answered
    /\ next_trains # <<>>
    /\ \E i, j \in DOMAIN stop_times :
          /\ AtStation(i) /\ WellFormed(i) /\ HasTrip(i)
          /\ TimeLess(current_time.time, ArrivalOf(i))
          /\ TripOf(stop_times[i].trip_id).service_id = "Svc2"
          /\ ~ActiveToday(stop_times[i].trip_id)
          /\ AtStation(j) /\ WellFormed(j) /\ HasTrip(j)
          /\ TimeLess(current_time.time, ArrivalOf(j))
          /\ TripOf(stop_times[j].trip_id).service_id = "Svc3"

----------------------------------------------------------------------------
(* C4 *)

\* C4: every row of the result is at a stop whose stop_name is the queried
\* name, and the rows of every such stop are candidates: a row that passes
\* every filter, in a headsign group of at most num_trains_per_route rows,
\* is in the result whichever of the station's stops it is at.
C4_AllStopsOfStation ==
    Answered =>
        /\ \A k \in DOMAIN next_trains :
              \E s \in DOMAIN Stops :
                  /\ Stops[s].stop_id = next_trains[k].stop_id
                  /\ Stops[s].stop_name = station_name
        /\ \A i \in DOMAIN stop_times :
              ( /\ Eligible(i)
                /\ Cardinality(EligibleFor(
                      TripOf(stop_times[i].trip_id).trip_headsign))
                     <= num_trains_per_route )
                  => i \in RowsShown

C4_Witness ==
    /\ Answered
    /\ \E a, b \in DOMAIN next_trains :
          next_trains[a].stop_id = "S1" /\ next_trains[b].stop_id = "S2"
    /\ \E i \in DOMAIN stop_times : stop_times[i].stop_id = "S3"

----------------------------------------------------------------------------
(* C5 *)

----------------------------------------------------------------------------
(* C6 *)

\* C6: the result is in non-decreasing arrival_time order, and two rows of
\* the result with the same arrival_time are in the order they have in
\* stop_times.txt.
C6_SortedTiesInRowOrder ==
    Answered =>
        \A a, b \in DOMAIN next_trains :
            a < b =>
                /\ ~TimeLess(next_trains[b].arrival_time,
                             next_trains[a].arrival_time)
                /\ next_trains[a].arrival_time = next_trains[b].arrival_time
                       => next_trains[a].row < next_trains[b].row

----------------------------------------------------------------------------
(* C7 *)

\* a row of the queried station with an arrival_time that is no HH:MM:SS
\* time of day, or with a trip_id that trips.txt does not have
Defective(i) == AtStation(i) /\ (~WellFormed(i) \/ ~HasTrip(i))

----------------------------------------------------------------------------
(* C8 *)

\* C8: once the download has failed and the failure was printed, the run
\* does not crash and neither extracts the archive nor reports the tables.
C8_FailedDownloadEndsRefresh ==
    Said("Failed to download GTFS data") =>
        /\ pc # "crashed"
        /\ ~Said("GTFS Data Information")
        /\ ~Said("Stops, Routes, Trips, Stop Times")

----------------------------------------------------------------------------
(* C10 *)

\* the steps in the order parse, join, service, future
FiltersInSpecOrder(st, station_stop_ids, now) ==
    LET parsed == ParsedStopTimes(
                      FilteredStopTimes(ReadStopTimes(st), station_stop_ids))
        joined == MergeTrips(parsed)
        active == SelectSeq(joined, LAMBDA r :
                      \E c \in DOMAIN Calendar :
                          /\ Calendar[c].service_id = r.service_id
                          /\ Calendar[c][now.weekday] = 1)
    IN  SelectSeq(active, LAMBDA r :
            r.arrival_time # NaT /\ TimeLess(now.time, r.arrival_time))

\* C10: the table printed, with the filters applied as the code applies
\* them (parse, future, join, service), is the table obtained with the
\* filters applied in the order parse, join, service, future.
C10_FilterOrderIrrelevant ==
    Answered =>
        stdout[Len(stdout)] =
            Msg("table",
                Printed(SortArrival(NextTrainsPerHeadsign(
                    SortHeadsignArrival(
                        FiltersInSpecOrder(stop_times,
                                           StationStopIds(station_name),
                                           current_time)),
                    num_trains_per_route))))

C10_Witness ==
    /\ Answered
    /\ next_trains # <<>>
    /\ \E i, j \in DOMAIN stop_times :
          /\ AtStation(i) /\ HasTrip(i) /\ WellFormed(i)
          /\ ~ActiveToday(stop_times[i].trip_id)
          /\ TimeLess(current_time.time, ArrivalOf(i))
          /\ AtStation(j) /\ HasTrip(j) /\ WellFormed(j)
          /\ ActiveToday(stop_times[j].trip_id)
          /\ ~TimeLess(current_time.time, ArrivalOf(j))

====
